---------------------------- MODULE Spec2Model ----------------------------
(***************************************************************************)
(* BinomialVanillaEngine_2<T> (project3/binomialengine.hpp): construction  *)
(* of the engine and one run of calculate(), statement by statement.       *)
(*                                                                         *)
(* A Real is modelled exactly, as a normalised fraction <<n, d>> with      *)
(* d > 0.  A fraction with d = 0 is the non-finite result of a division by *)
(* zero (C++ does not raise on it), and NullReal is Null<Real>().          *)
(***************************************************************************)
EXTENDS Integers, Sequences, FiniteSets

VARIABLES
    pc,          \* position of the engine: constructor, then calculate()
    timeSteps_,  \* member timeSteps_ (line 70)
    treeT,       \* the template parameter T: the tree-building strategy
    arguments_,  \* arguments_.payoff / arguments_.exercise
    process_,    \* the process: spot and the three live term structures
    s0, v, r, q, \* locals of calculate(), lines 84-92
    built,       \* which objects calculate() has constructed so far
    tree,        \* geometry returned by T (line 121)
    discount,    \* one-step discount factor of the lattice (line 124)
    step,        \* current step index of the discretized option
    values,      \* option.values(): one value per node of the current step
    greeks,      \* locals s0u, s0d, delta, gamma (lines 144-151)
    thetaArgs,   \* the rate, yield and volatility read by blackScholesTheta
    results_,    \* results_.value / delta / gamma / theta
    error,       \* message of the exception that ended the call, if any
    mono         \* two pricing calls compared (monotonicity study)

vars == <<pc, timeSteps_, treeT, arguments_, process_, s0, v, r, q, built,
          tree, discount, step, values, greeks, thetaArgs, results_, error,
          mono>>

(***************************************************************************)
(* Bounds of the model.                                                    *)
(***************************************************************************)
MaxN == 4

(***************************************************************************)
(* Real arithmetic.                                                        *)
(***************************************************************************)
Abs(x) == IF x < 0 THEN -x ELSE x

RECURSIVE GCD(_, _)
GCD(a, b) == IF b = 0 THEN a ELSE GCD(b, a % b)

NaN == <<0, 0>>

NullReal == <<0, -1>>

IsFinite(a) == a[2] > 0

R(n, d) ==
    IF d = 0 THEN NaN
    ELSE LET g == GCD(Abs(n), Abs(d))
             s == IF d < 0 THEN -1 ELSE 1
         IN  <<(s * n) \div g, (s * d) \div g>>

RAdd(a, b) ==
    IF IsFinite(a) /\ IsFinite(b)
    THEN LET g == GCD(a[2], b[2])
         IN  R(a[1] * (b[2] \div g) + b[1] * (a[2] \div g),
               (a[2] \div g) * b[2])
    ELSE NaN

RNeg(a) == IF IsFinite(a) THEN <<-a[1], a[2]>> ELSE NaN

RSub(a, b) == RAdd(a, RNeg(b))

RMul(a, b) ==
    IF IsFinite(a) /\ IsFinite(b)
    THEN LET g1 == GCD(Abs(a[1]), b[2])
             g2 == GCD(Abs(b[1]), a[2])
         IN  <<(a[1] \div g1) * (b[1] \div g2),
               (a[2] \div g2) * (b[2] \div g1)>>
    ELSE NaN

RInv(a) ==
    IF IsFinite(a) /\ a[1] # 0
    THEN IF a[1] < 0 THEN <<-a[2], -a[1]>> ELSE <<a[2], a[1]>>
    ELSE NaN

RDiv(a, b) == RMul(a, RInv(b))

RLess(a, b) ==
    LET g == GCD(a[2], b[2])
    IN  a[1] * (b[2] \div g) < b[1] * (a[2] \div g)

RLeq(a, b) == ~RLess(b, a)

RMax(a, b) == IF RLess(a, b) THEN b ELSE a

RECURSIVE RPow(_, _)
RPow(a, e) ==
    IF e = 0 THEN R(1, 1)
    ELSE IF e < 0 THEN RInv(RPow(a, -e))
    ELSE RMul(a, RPow(a, e - 1))

Zero == R(0, 1)

One == R(1, 1)

Two == R(2, 1)

Half == R(1, 2)

(***************************************************************************)
(* Inputs of a pricing call.                                               *)
(***************************************************************************)
Spots == {R(0, 1), R(2, 1), R(3, 1)}

Strikes == {R(2, 1), R(3, 1)}

PositiveSpots == {x \in Spots : RLess(Zero, x)}

\* LatticeGeometry: 0 < down < up and prob in [0,1].
Geometries ==
    { [up |-> R(2, 1), down |-> R(1, 2), prob |-> R(1, 2)],
      [up |-> R(3, 1), down |-> R(1, 1), prob |-> R(1, 3)] }

\* A tree strategy T maps the process' spot and the strike to a geometry.
TreeStrategies == [PositiveSpots \X Strikes -> Geometries]

\* A term structure: its value for the horizon ending at the exercise
\* date ("zero": zeroRate(maturityDate), blackVol(lastDate)) and its value
\* at the valuation point ("short": zeroRate(0.0), localVol(0.0)).
Curve(short, zero) == [short |-> short, zero |-> zero]

Markets ==
    { [riskFreeRate |-> Curve(Zero, Zero), dividendYield |-> Curve(Zero, Zero),
       blackVolatility |-> Curve(Half, Half)],
      [riskFreeRate |-> Curve(R(1, 10), R(1, 10)),
       dividendYield |-> Curve(Zero, Zero),
       blackVolatility |-> Curve(Half, Half)],
      [riskFreeRate |-> Curve(Zero, R(1, 10)),
       dividendYield |-> Curve(R(1, 10), Zero),
       blackVolatility |-> Curve(One, Half)] }

Processes ==
    { [spot |-> x, riskFreeRate |-> m.riskFreeRate,
       dividendYield |-> m.dividendYield,
       blackVolatility |-> m.blackVolatility] : x \in Spots, m \in Markets }

Arguments ==
    [plain : BOOLEAN, type : {"Call", "Put"}, strike : Strikes,
     earlyExercise : BOOLEAN]

(***************************************************************************)
(* The collaborators of the engine: payoff, lattice, discretized option.   *)
(***************************************************************************)
\* PlainVanillaPayoff::operator()
Payoff(args, price) ==
    IF args.type = "Call"
    THEN RMax(RSub(price, args.strike), Zero)
    ELSE RMax(RSub(args.strike, price), Zero)

\* exp(-r*dt): 1 for a zero rate, below 1 for a positive one.
DiscountFactor(rate) == IF rate = Zero THEN One ELSE Half

\* Number of nodes of the lattice at step i: three at step 0.
LatticeSize(i) == i + 3

\* Node j of step i sits j-1 moves from the centre (the engine labels
\* nodes 0, 1, 2 of step 0 as -1, 0, 1): spot * up^(j-1) * down^(i-(j-1)).
LatticeUnderlying(lat, i, j) ==
    RMul(lat.spot, RMul(RPow(lat.geo.up, j - 1), RPow(lat.geo.down, i - (j - 1))))

\* DiscretizedOption::initialize at step n: the payoff at every node.
InitialValues(lat, args, n) ==
    [j \in 1..LatticeSize(n) |-> Payoff(args, LatticeUnderlying(lat, n, j - 1))]

\* One backward step of the lattice: discounted expectation.
StepBack(lat, vals) ==
    [j \in 1..(Len(vals) - 1) |->
        RMul(lat.disc,
             RAdd(RMul(lat.geo.prob, vals[j + 1]),
                  RMul(RSub(One, lat.geo.prob), vals[j])))]

\* Exercise-boundary adjustment of the values of step i.
AdjustValues(lat, args, i, vals) ==
    [j \in 1..Len(vals) |->
        IF args.earlyExercise
        THEN RMax(vals[j], Payoff(args, LatticeUnderlying(lat, i, j - 1)))
        ELSE vals[j]]

\* The values of step i-1 from those of step i.
RollbackStepValues(lat, args, i, vals) ==
    AdjustValues(lat, args, i - 1, StepBack(lat, vals))

RECURSIVE RollbackValues(_, _, _, _, _)
RollbackValues(lat, args, from, to, vals) ==
    IF from <= to THEN vals
    ELSE RollbackValues(lat, args, from - 1, to,
                        RollbackStepValues(lat, args, from, vals))

(***************************************************************************)
(* The engine: constructor and calculate().                                *)
(***************************************************************************)
MinTimeSteps == 2

ExpectedNodes == 3

TimeStepsError == "at least 2 time steps required"

SpotError == "negative or null underlying given"

PayoffError == "non-plain payoff given"

NodesError == "Expect 3 nodes in grid at 0 step"

ThetaError == "blackScholesTheta failed"

NoGeometry == [up |-> NullReal, down |-> NullReal, prob |-> NullReal]

NoGreeks ==
    [s0u |-> NullReal, s0d |-> NullReal, delta |-> NullReal, gamma |-> NullReal]

NoThetaArgs == [r |-> NullReal, q |-> NullReal, v |-> NullReal]

NoResults ==
    [value |-> NullReal, delta |-> NullReal, gamma |-> NullReal,
     theta |-> NullReal]

NoProcess == [spot |-> NullReal, riskFreeRate |-> Curve(NullReal, NullReal),
              dividendYield |-> Curve(NullReal, NullReal),
              blackVolatility |-> Curve(NullReal, NullReal)]

NoArguments ==
    [plain |-> FALSE, type |-> "Call", strike |-> NullReal,
     earlyExercise |-> FALSE]

NoMono == [phase |-> "off"]

TimeStepsOkLoose(n) == n >= MinTimeSteps - 1

\* QL_REQUIRE(timeSteps >= 2, ...)
TimeStepsOk(n) == n >= MinTimeSteps

\* QL_REQUIRE(s0 > 0.0, ...)
SpotOk(x) == RLess(Zero, x)

TreeForSpot(t, spot, strike) == t[<<spot, spot>>]

\* new T(bs, maturity, timeSteps_, payoff->strike())
TreeFor(t, spot, strike) == t[<<spot, strike>>]

\* The lattice as the option sees it: geometry, discount and spot.
Lattice(geo, disc, spot) == [geo |-> geo, disc |-> disc, spot |-> spot]

InitializeStepEarly(n) == n - 1

\* option.initialize(lattice, maturity): maturity is the last step.
InitializeStep(n) == n

RollbackTargetLate == 0 + 1

\* option.rollback(0.0): time 0 is step 0.
RollbackTarget == 0

P0u(va) == va[3]

P0(va) == va[2]

P0d(va) == va[1]

S0uMid(lat) == LatticeUnderlying(lat, 0, 1)

S0u(lat) == LatticeUnderlying(lat, 0, 2)

S0d(lat) == LatticeUnderlying(lat, 0, 0)

Delta(p0u, p0d, s0u, s0d) == RDiv(RSub(p0u, p0d), RSub(s0u, s0d))

Delta0u(p0u, p0, s0u, spot) == RDiv(RSub(p0u, p0), RSub(s0u, spot))

Delta0dSlip(p0d, p0, s0d, spot) == RDiv(RSub(p0, p0d), RSub(s0d, spot))

Delta0d(p0d, p0, s0d, spot) == RDiv(RSub(p0d, p0), RSub(s0d, spot))

Gamma(delta0u, delta0d, s0u, s0d) ==
    RDiv(RSub(delta0u, delta0d), RDiv(RSub(s0u, s0d), Two))

\* The process handed to blackScholesTheta.
ThetaProcess(original, flat) == original

\* blackScholesTheta reads the process at the valuation point.
ThetaInputs(p) ==
    [r |-> p.riskFreeRate.short, q |-> p.dividendYield.short,
     v |-> p.blackVolatility.short]

\* r*value - (r-q)*u*delta - 0.5*v*v*u*u*gamma
BlackScholesTheta(p, value, delta, gamma) ==
    LET a == ThetaInputs(p)
        u == p.spot
    IN  RSub(RSub(RMul(a.r, value),
                  RMul(RSub(a.r, a.q), RMul(u, delta))),
             RMul(Half, RMul(RMul(a.v, a.v), RMul(RMul(u, u), gamma))))

\* The constant-coefficient process bs built from the sampled r, q, v.
FlatProcess(spot, rate, yield, vol) ==
    [spot |-> spot, riskFreeRate |-> Curve(rate, rate),
     dividendYield |-> Curve(yield, yield),
     blackVolatility |-> Curve(vol, vol)]

CurrentLattice == Lattice(tree, discount, process_.spot)

Fail(msg) == pc' = "failed" /\ error' = msg

Init ==
    /\ pc = "new"
    /\ timeSteps_ = 0
    /\ treeT \in TreeStrategies
    /\ arguments_ = NoArguments
    /\ process_ = NoProcess
    /\ s0 = NullReal /\ v = NullReal /\ r = NullReal /\ q = NullReal
    /\ built = {}
    /\ tree = NoGeometry
    /\ discount = NullReal
    /\ step = 0
    /\ values = <<>>
    /\ greeks = NoGreeks
    /\ thetaArgs = NoThetaArgs
    /\ results_ = NoResults
    /\ error = ""
    /\ mono = NoMono

\* BinomialVanillaEngine_2(process, timeSteps)
Construct ==
    /\ pc = "new"
    /\ \E n \in 0..MaxN, p \in Processes :
          /\ timeSteps_' = n
          /\ process_' = p
          /\ IF TimeStepsOk(n)
             THEN pc' = "idle" /\ error' = error
             ELSE pc' = "rejected"
                  /\ error' = TimeStepsError
    /\ UNCHANGED <<treeT, arguments_, s0, v, r, q, built, tree, discount,
                   step, values, greeks, thetaArgs, results_, mono>>

\* The instrument sets the arguments up and calls calculate().
BeginCalculate ==
    /\ pc = "idle"
    /\ \E a \in Arguments : arguments_' = a
    /\ pc' = "spot"
    /\ UNCHANGED <<timeSteps_, treeT, process_, s0, v, r, q, built, tree,
                   discount, step, values, greeks, thetaArgs, results_, error,
                   mono>>

\* Lines 84-85.
CheckSpot ==
    /\ pc = "spot"
    /\ s0' = process_.spot
    /\ IF SpotOk(process_.spot)
       THEN pc' = "sample" /\ error' = error
       ELSE Fail(SpotError)
    /\ UNCHANGED <<timeSteps_, treeT, arguments_, process_, v, r, q, built,
                   tree, discount, step, values, greeks, thetaArgs, results_,
                   mono>>

\* Lines 86-93: the three structures sampled for the exercise date.
SampleCurves ==
    /\ pc = "sample"
    /\ v' = process_.blackVolatility.zero
    /\ r' = process_.riskFreeRate.zero
    /\ q' = process_.dividendYield.zero
    /\ built' = built \cup {"sampled"}
    /\ pc' = "flatten"
    /\ UNCHANGED <<timeSteps_, treeT, arguments_, process_, s0, tree,
                   discount, step, values, greeks, thetaArgs, results_, error,
                   mono>>

\* Lines 96-104: the constant-coefficient curves.
FlattenCurves ==
    /\ pc = "flatten"
    /\ built' = built \cup {"flattened"}
    /\ pc' = "payoff"
    /\ UNCHANGED <<timeSteps_, treeT, arguments_, process_, s0, v, r, q,
                   tree, discount, step, values, greeks, thetaArgs, results_,
                   error, mono>>

\* Lines 106-108.
CheckPayoff ==
    /\ pc = "payoff"
    /\ IF arguments_.plain
       THEN pc' = "grid" /\ error' = error
       ELSE Fail(PayoffError)
    /\ UNCHANGED <<timeSteps_, treeT, arguments_, process_, s0, v, r, q,
                   built, tree, discount, step, values, greeks, thetaArgs,
                   results_, mono>>

\* Lines 110-117: maturity, the flat process bs and the time grid.
BuildGrid ==
    /\ pc = "grid"
    /\ built' = built \cup {"grid"}
    /\ pc' = "tree"
    /\ UNCHANGED <<timeSteps_, treeT, arguments_, process_, s0, v, r, q,
                   tree, discount, step, values, greeks, thetaArgs, results_,
                   error, mono>>

\* Lines 121-122.
BuildTree ==
    /\ pc = "tree"
    /\ tree' = TreeFor(treeT, s0, arguments_.strike)
    /\ built' = built \cup {"tree"}
    /\ pc' = "lattice"
    /\ UNCHANGED <<timeSteps_, treeT, arguments_, process_, s0, v, r, q,
                   discount, step, values, greeks, thetaArgs, results_, error,
                   mono>>

\* Lines 124-125.
BuildLattice ==
    /\ pc = "lattice"
    /\ discount' = DiscountFactor(r)
    /\ built' = built \cup {"lattice"}
    /\ pc' = "initialize"
    /\ UNCHANGED <<timeSteps_, treeT, arguments_, process_, s0, v, r, q,
                   tree, step, values, greeks, thetaArgs, results_, error,
                   mono>>

\* Lines 131-133.
Initialize ==
    /\ pc = "initialize"
    /\ step' = InitializeStep(timeSteps_)
    /\ values' = InitialValues(CurrentLattice, arguments_,
                               InitializeStep(timeSteps_))
    /\ built' = built \cup {"option"}
    /\ pc' = "rollback"
    /\ UNCHANGED <<timeSteps_, treeT, arguments_, process_, s0, v, r, q,
                   tree, discount, greeks, thetaArgs, results_, error, mono>>

\* Line 138: one backward step of option.rollback(0.0).
RollbackStep ==
    /\ pc = "rollback"
    /\ step > RollbackTarget
    /\ values' = RollbackStepValues(CurrentLattice, arguments_, step, values)
    /\ step' = step - 1
    /\ built' = built \cup {"rollback"}
    /\ UNCHANGED <<pc, timeSteps_, treeT, arguments_, process_, s0, v, r, q,
                   tree, discount, greeks, thetaArgs, results_, error, mono>>

\* Lines 139-140: the rollback has returned.
EnsureNodes ==
    /\ pc = "rollback"
    /\ step <= RollbackTarget
    /\ IF Len(values) = ExpectedNodes
       THEN pc' = "greeks" /\ error' = error
       ELSE Fail(NodesError)
    /\ UNCHANGED <<timeSteps_, treeT, arguments_, process_, s0, v, r, q,
                   built, tree, discount, step, values, greeks, thetaArgs,
                   results_, mono>>

\* Lines 141-151.
ComputeGreeks ==
    /\ pc = "greeks"
    /\ LET p0u == P0u(values)
           p0 == P0(values)
           p0d == P0d(values)
           s0u == S0u(CurrentLattice)
           s0d == S0d(CurrentLattice)
           delta0u == Delta0u(p0u, p0, s0u, s0)
           delta0d == Delta0d(p0d, p0, s0d, s0)
       IN  greeks' = [s0u |-> s0u, s0d |-> s0d,
                      delta |-> Delta(p0u, p0d, s0u, s0d),
                      gamma |-> Gamma(delta0u, delta0d, s0u, s0d)]
    /\ pc' = "store"
    /\ UNCHANGED <<timeSteps_, treeT, arguments_, process_, s0, v, r, q,
                   built, tree, discount, step, values, thetaArgs, results_,
                   error, mono>>

\* Lines 154-156.
StoreResults ==
    /\ pc = "store"
    /\ results_' = [results_ EXCEPT !.value = P0(values),
                                    !.delta = greeks.delta,
                                    !.gamma = greeks.gamma]
    /\ pc' = "theta"
    /\ UNCHANGED <<timeSteps_, treeT, arguments_, process_, s0, v, r, q,
                   built, tree, discount, step, values, greeks, thetaArgs,
                   error, mono>>

\* Lines 157-160: blackScholesTheta returns, or raises.
ComputeTheta ==
    /\ pc = "theta"
    /\ LET p == ThetaProcess(process_, FlatProcess(s0, r, q, v))
       IN  \E raises \in BOOLEAN :
              IF raises
              THEN /\ Fail(ThetaError)
                   /\ UNCHANGED <<thetaArgs, results_>>
              ELSE /\ thetaArgs' = ThetaInputs(p)
                   /\ results_' =
                        [results_ EXCEPT !.theta =
                            BlackScholesTheta(p, results_.value,
                                              results_.delta, results_.gamma)]
                   /\ pc' = "done"
                   /\ error' = error
    /\ UNCHANGED <<timeSteps_, treeT, arguments_, process_, s0, v, r, q,
                   built, tree, discount, step, values, greeks, mono>>

Next ==
    \/ Construct
    \/ BeginCalculate
    \/ CheckSpot
    \/ SampleCurves
    \/ FlattenCurves
    \/ CheckPayoff
    \/ BuildGrid
    \/ BuildTree
    \/ BuildLattice
    \/ Initialize
    \/ RollbackStep
    \/ EnsureNodes
    \/ ComputeGreeks
    \/ StoreResults
    \/ ComputeTheta

Spec == Init /\ [][Next]_vars

(***************************************************************************)
(* Two pricing calls of the same engine type compared.  EngineValue is     *)
(* results_.value as calculate() computes it, as a function of the inputs. *)
(***************************************************************************)
EngineValue(t, n, spot, rate, args) ==
    LET lat == Lattice(TreeFor(t, spot, args.strike), DiscountFactor(rate),
                       spot)
        m == InitializeStep(n)
    IN  P0(RollbackValues(lat, args, m, RollbackTarget,
                          InitialValues(lat, args, m)))

MonoInputs ==
    [phase : {"inputs"}, n : MinTimeSteps..MaxN, rate : {Zero, R(1, 10)},
     type : {"Call"}, earlyExercise : BOOLEAN,
     spotA : PositiveSpots, spotB : PositiveSpots,
     strikeA : Strikes, strikeB : Strikes,
     valueA : {NullReal}, valueB : {NullReal}]

MonoArgs(strike) ==
    [plain |-> TRUE, type |-> mono.type, strike |-> strike,
     earlyExercise |-> mono.earlyExercise]

EngineIdle ==
    UNCHANGED <<pc, timeSteps_, treeT, arguments_, process_, s0, v, r, q,
                built, tree, discount, step, values, greeks, thetaArgs,
                results_, error>>

InitMono ==
    /\ pc = "new"
    /\ timeSteps_ = 0
    /\ treeT \in TreeStrategies
    /\ arguments_ = NoArguments
    /\ process_ = NoProcess
    /\ s0 = NullReal /\ v = NullReal /\ r = NullReal /\ q = NullReal
    /\ built = {}
    /\ tree = NoGeometry
    /\ discount = NullReal
    /\ step = 0
    /\ values = <<>>
    /\ greeks = NoGreeks
    /\ thetaArgs = NoThetaArgs
    /\ results_ = NoResults
    /\ error = ""
    /\ mono \in MonoInputs

PriceFirst ==
    /\ mono.phase = "inputs"
    /\ mono' = [mono EXCEPT !.phase = "first",
                  !.valueA = EngineValue(treeT, mono.n, mono.spotA, mono.rate,
                                         MonoArgs(mono.strikeA))]
    /\ EngineIdle

PriceSecond ==
    /\ mono.phase = "first"
    /\ mono' = [mono EXCEPT !.phase = "priced",
                  !.valueB = EngineValue(treeT, mono.n, mono.spotB, mono.rate,
                                         MonoArgs(mono.strikeB))]
    /\ EngineIdle

NextMono ==
    \/ PriceFirst
    \/ PriceSecond

SpecMono == InitMono /\ [][NextMono]_vars

(***************************************************************************)
(* Properties.                                                             *)
(***************************************************************************)
AfterRollback == pc \in {"greeks", "store", "theta", "done"}

\* The value calculate() stores is the function EngineValue of its inputs.
ValueIsEngineValue ==
    pc = "done" =>
        results_.value =
            EngineValue(treeT, timeSteps_, process_.spot,
                        process_.riskFreeRate.zero, arguments_)

\* C1: for every step count N >= 2, initialize followed by rollback to time
\* 0 leaves exactly 3 node values at step 0, and the call never raises the
\* "Expect 3 nodes in grid at 0 step" failure.
C1_ThreeNodesAtZero ==
    /\ error # NodesError
    /\ AfterRollback => step = 0 /\ Len(values) = 3

C1_Witness ==
    /\ pc = "greeks"
    /\ timeSteps_ = 2
    /\ Len(values) = 3

C3_InsufficientResolution ==
    timeSteps_ < 2 =>
        /\ pc \in {"new", "rejected"}
        /\ pc = "rejected" => error = TimeStepsError
        /\ built = {}
        /\ values = <<>>

C3_Witness == pc = "rejected" /\ timeSteps_ = 1

\* C4: a non-positive spot or a non-plain payoff fails before any
\* computation: when the failure is raised no curve has been sampled or
\* flattened and no tree, lattice or rollback has been started.
C4_PreconditionsFailFirst ==
    (pc = "failed" /\ error \in {SpotError, PayoffError}) => built = {}

\* C5: a failed call leaves no partial result: none of value, delta, gamma,
\* theta has been written in any state of a failed call.
C5_NoPartialResult == pc = "failed" => results_ = NoResults

C9_RollbackRule ==
    [][
        /\ (pc = "initialize" /\ pc' = "rollback") =>
              /\ step' = timeSteps_
              /\ Len(values') = timeSteps_ + 3
              /\ \A j \in 0..(timeSteps_ + 2) :
                    values'[j + 1] =
                        Payoff(arguments_,
                               LatticeUnderlying(CurrentLattice, timeSteps_, j))
        /\ (pc = "rollback" /\ pc' = "rollback") =>
              /\ step' = step - 1
              /\ step' >= 0
              /\ Len(values') = Len(values) - 1
              /\ \A j \in 0..(Len(values) - 2) :
                    LET continuation ==
                            RMul(discount,
                                 RAdd(RMul(tree.prob, values[j + 2]),
                                      RMul(RSub(One, tree.prob), values[j + 1])))
                        exercise ==
                            Payoff(arguments_,
                                   LatticeUnderlying(CurrentLattice, step - 1, j))
                    IN  values'[j + 1] =
                            IF arguments_.earlyExercise
                            THEN RMax(continuation, exercise)
                            ELSE continuation
        /\ (pc = "rollback" /\ pc' # "rollback") => step = 0
    ]_vars

\* A backward step at which early exercise has changed a node's value.
C9_Witness ==
    /\ pc = "rollback"
    /\ 0 < step /\ step < timeSteps_
    /\ arguments_.earlyExercise
    /\ values # RollbackValues(CurrentLattice,
                               [arguments_ EXCEPT !.earlyExercise = FALSE],
                               timeSteps_, step,
                               InitialValues(CurrentLattice, arguments_,
                                             timeSteps_))

\* C10: the rate, dividend yield and volatility entering theta are the r, q
\* and v sampled for the lattice.
C10_ThetaUsesFlattened ==
    pc = "done" => thetaArgs = [r |-> r, q |-> q, v |-> v]

=============================================================================
